---------------------------- MODULE Spec2Model ----------------------------
(***************************************************************************)
(* live-f1: the packet reducers of src/src/packet.c (handle_car_packet,    *)
(* handle_system_packet) and the board functions of src/src/display.c      *)
(* they call, as a state machine over the CurrentState structure.          *)
(*                                                                         *)
(* Every C function is an operator from a state record to a state record,  *)
(* so that a handler is the composition of the calls it makes; an action   *)
(* of the machine reduces one packet with the whole handler.  The one      *)
(* handler that is not a single step is the first key frame: it calls      *)
(* obtain_key_frame, which feeds packets back through the same handlers    *)
(* before it returns.                                                      *)
(***************************************************************************)
EXTENDS Integers, Sequences, FiniteSets, TLC

VARIABLES
    num_cars,        \* state->num_cars
    car_position,    \* state->car_position[0 .. num_cars-1], here 1 .. num_cars
    car_info,        \* state->car_info[car][type], a CarAtom {data, text}
    event_no,        \* state->event_no
    event_type,      \* state->event_type
    epoch_time,      \* state->epoch_time
    remaining_time,  \* state->remaining_time
    lap,             \* state->lap
    flag,            \* state->flag
    frame,           \* state->frame
    key,             \* state->key
    cursed,          \* display.c: curses display running
    nlines,          \* display.c: lines used for the board
    alive,           \* FALSE once the process has exited or crashed
    pkt,             \* the packet whose reduction ended (or was suspended) last
    calls,           \* what that reduction called, in order
    disp,            \* what display.c did during that reduction
    old_position,    \* car_position as that reduction found it
    markers,         \* key frame markers met so far: in the run, in the session
    stack,           \* suspended key-frame reductions (obtain_key_frame running)
    returned,        \* what that reduction gave back to its caller
    reply            \* how the key or key frame provider it called answered

vars == <<num_cars, car_position, car_info, event_no, event_type, epoch_time,
          remaining_time, lap, flag, frame, key, cursed, nlines, alive, pkt,
          calls, disp, old_position, markers, stack, returned, reply>>

-----------------------------------------------------------------------------
(* Bounds of the model. *)

\* Highest car id the feed names.
MaxCars == 2
\* Highest board position a PositionUpdate carries.
MaxPos == 2
\* Size of the car packet type catalogue (LAST_CAR_PACKET), scaled down:
\* type 0 is the position update, the last one the position history, the
\* ones between are data atoms.
LastCarPacket == 3
\* sizeof (CarAtom.text), scaled down: holds TextSize - 1 characters and NUL.
TextSize == 3
\* Longest atom payload the feed carries.
MaxLen == 3
\* Lines of the terminal (curses LINES).
TermLines == 25
\* Deepest nesting of obtain_key_frame replays that is followed.
MaxDepth == 1
\* Deepest nesting of clear_board inside _update_cell that is followed.
MaxRepaint == 2

(* Program constants. *)

\* display.c: minimum number of cars to assume.
MIN_CARS == 20
\* '0' and ':' of the numeral decoders.
Char0 == 48
CharColon == 58
\* unsigned int of the decoders.
UIntBits == 32

\* An unsigned int is held as the int of the same bits (2^31 and more are
\* the negative ones), and computed with in two halves.
Half == 2 ^ (UIntBits \div 2)

Wrap(hi, lo) ==
    IF hi >= Half \div 2 THEN (hi - Half) * Half + lo ELSE hi * Half + lo

\* a + b in unsigned int arithmetic.
AddU(a, b) ==
    LET l == (a % Half) + (b % Half)
        h == ((a \div Half) % Half) + ((b \div Half) % Half) + (l \div Half)
    IN Wrap(h % Half, l % Half)

\* n * m in unsigned int arithmetic, for a small m.
MulU(n, m) ==
    LET l == (n % Half) * m
        h == ((n \div Half) % Half) * m + (l \div Half)
    IN Wrap(h % Half, l % Half)

\* n * m + d in unsigned int arithmetic.
MulAdd(n, m, d) == AddU(MulU(n, m), d)

Max(a, b) == IF a >= b THEN a ELSE b

-----------------------------------------------------------------------------
(* Packets: car = 0 is a system packet.  The type catalogues are those of  *)
(* packet.h: the car catalogue is 0 .. LastCarPacket - 1, the system one   *)
(* is named.                                                               *)

CAR_POSITION_UPDATE == 0
CAR_POSITION_HISTORY == LastCarPacket - 1
AtomTypes == (CAR_POSITION_UPDATE + 1) .. (CAR_POSITION_HISTORY - 1)

CarPacket(car, type, data, len, payload) ==
    [car |-> car, type |-> type, sys |-> "", data |-> data, len |-> len,
     payload |-> payload]

SysPacket(sys, data, len, payload) ==
    [car |-> 0, type |-> 0, sys |-> sys, data |-> data, len |-> len,
     payload |-> payload]

NoPacket == SysPacket("none", 0, 0, <<>>)

ZeroAtom == [data |-> 0, text |-> <<>>]

ZeroTable == [j \in 0 .. (LastCarPacket - 1) |-> ZeroAtom]

NoDisplay == [boards |-> 0, depth |-> 0, runaway |-> FALSE, overrun |-> 0,
              rows |-> {}]

-----------------------------------------------------------------------------
(* The state record the C functions are written over. *)

S == [num_cars |-> num_cars, car_position |-> car_position,
      car_info |-> car_info, event_no |-> event_no,
      event_type |-> event_type, epoch_time |-> epoch_time,
      remaining_time |-> remaining_time, lap |-> lap, flag |-> flag,
      frame |-> frame, key |-> key, cursed |-> cursed, nlines |-> nlines,
      alive |-> alive, calls |-> <<>>, disp |-> NoDisplay,
      returned |-> "void"]

Assign(r) ==
    /\ num_cars' = r.num_cars
    /\ car_position' = r.car_position
    /\ car_info' = r.car_info
    /\ event_no' = r.event_no
    /\ event_type' = r.event_type
    /\ epoch_time' = r.epoch_time
    /\ remaining_time' = r.remaining_time
    /\ lap' = r.lap
    /\ flag' = r.flag
    /\ frame' = r.frame
    /\ key' = r.key
    /\ cursed' = r.cursed
    /\ nlines' = r.nlines
    /\ alive' = r.alive
    /\ calls' = r.calls
    /\ disp' = r.disp
    /\ returned' = r.returned
    /\ old_position' = car_position

\* What the state looks like to a collaborator at the time it is called.
Seen(s) == [num_cars |-> s.num_cars, event_no |-> s.event_no,
            event_type |-> s.event_type, frame |-> s.frame]

\* A call the reducer makes, with two arguments and, for clear_board, the
\* tables the display is handed.
Call(s, op, a, b) ==
    [s EXCEPT !.calls = Append(@, [op |-> op, a |-> a, b |-> b,
                                   at |-> Seen(s), snap |-> <<>>])]

CallBoard(s) ==
    [s EXCEPT !.calls = Append(@, [op |-> "clear_board", a |-> s.num_cars,
                                   b |-> s.event_type, at |-> Seen(s),
                                   snap |-> <<s.car_position, s.car_info>>])]

-----------------------------------------------------------------------------
(* display.c.  The windows themselves are not modelled: what is kept is    *)
(* whether curses runs, the height of the board window, and for one        *)
(* reduction how often and how deep clear_board ran and which rows were    *)
(* written with which window height.                                       *)

RACE_EVENT == 1
PRACTICE_EVENT == 2

\* nlines computed from the number of cars alone.
BoardLinesCars(s) == Max(s.num_cars, MIN_CARS) + 1

\* clear_board's computation of nlines.
BoardLines(s) ==
    LET vals == {s.car_position[i] : i \in 1 .. s.num_cars}
                    \cup {Max(s.num_cars, MIN_CARS)}
    IN (CHOOSE m \in vals : \A v \in vals : m >= v) + 1

\* wmove (boardwin, y, x) followed by output on that row.
DrawRow(s, y) ==
    [s EXCEPT !.disp.rows = @ \cup {<<y, s.nlines>>}]

\* The tail of _update_cell: the cell is written when the event type and
\* the atom type have a column.
DrawCell(s, y, type) ==
    IF s.event_type \in {RACE_EVENT, PRACTICE_EVENT} /\ type \in AtomTypes
    THEN DrawRow(s, y)
    ELSE s

RECURSIVE ClearBoard(_, _)
RECURSIVE UpdateCellInner(_, _, _, _)
RECURSIVE RepaintCells(_, _, _)

\* _update_cell; d is the number of clear_board calls it runs inside.
UpdateCellInner(s, car, type, d) ==
    IF ~s.alive THEN s
    ELSE LET y == s.car_position[car]
         IN IF y = 0 THEN s
            ELSE LET s1 == IF s.nlines < y
                           THEN IF d < MaxRepaint
                                THEN ClearBoard(s, d + 1)
                                ELSE [s EXCEPT !.disp.runaway = TRUE]
                           ELSE s
                 IN IF s1.alive THEN DrawCell(s1, y, type) ELSE s1

\* clear_board's loop over every car and every atom, the k-th cell on.
RepaintCells(s, k, d) ==
    IF k >= s.num_cars * LastCarPacket \/ ~s.alive THEN s
    ELSE RepaintCells(UpdateCellInner(s, (k \div LastCarPacket) + 1,
                                      k % LastCarPacket, d), k + 1, d)

ClearBoard(s, d) ==
    IF ~s.alive THEN s
    ELSE LET nl == BoardLines(s)
             s1 == [s EXCEPT !.cursed = TRUE, !.nlines = nl,
                             !.disp.boards = @ + 1,
                             !.disp.depth = Max(@, d)]
         IN IF TermLines < nl
            THEN [s1 EXCEPT !.cursed = FALSE, !.alive = FALSE]
            ELSE RepaintCells(s1, 0, d)

OpenBoard(s) == IF s.alive /\ ~s.cursed THEN ClearBoard(s, 1) ELSE s

UpdateCell(s, car, type) ==
    UpdateCellInner(OpenBoard(s), car, type, 0)

RECURSIVE UpdateRow(_, _, _)
UpdateRow(s, car, i) ==
    IF i >= LastCarPacket THEN s
    ELSE UpdateRow(UpdateCellInner(s, car, i, 0), car, i + 1)

UpdateCar(s, car) == UpdateRow(OpenBoard(s), car, 0)

ClearCar(s, car) ==
    LET s1 == OpenBoard(s)
    IN IF ~s1.alive THEN s1
       ELSE LET y == s1.car_position[car]
            IN IF y = 0 THEN s1
               ELSE LET s2 == IF s1.nlines < y THEN ClearBoard(s1, 1) ELSE s1
                    IN IF s2.alive THEN DrawRow(s2, y) ELSE s2

-----------------------------------------------------------------------------
(* packet.c: handle_car_packet.                                            *)

\* The realloc with the new positions left as they come.
GrowUnset(s, car) ==
    [s EXCEPT !.car_position = [i \in 1 .. car |->
                                   IF i <= s.num_cars THEN s.car_position[i]
                                   ELSE i],
              !.car_info = [i \in 1 .. car |->
                               IF i <= s.num_cars THEN s.car_info[i]
                               ELSE ZeroTable],
              !.num_cars = car]

\* The realloc of both arrays and the initialisation of the new entries.
Grow(s, car) ==
    [s EXCEPT !.car_position = [i \in 1 .. car |->
                                   IF i <= s.num_cars THEN s.car_position[i]
                                   ELSE 0],
              !.car_info = [i \in 1 .. car |->
                               IF i <= s.num_cars THEN s.car_info[i]
                               ELSE ZeroTable],
              !.num_cars = car]

\* The test for any other car count than the car's id.
EnsureCarExact(s, car) ==
    IF car # s.num_cars THEN ClearBoard(CallBoard(Grow(s, car)), 1) ELSE s

\* The test for a new car, and the board redraw that follows the growth.
EnsureCar(s, car) ==
    IF car > s.num_cars THEN ClearBoard(CallBoard(Grow(s, car)), 1) ELSE s

\* The loop that clears every other car.
ScanPositionsAll(pos, n, data) == [i \in 1 .. n |-> 0]

\* The loop left out.
ScanPositionsNone(pos, n, data) == pos

\* The loop ending one car early.
ScanPositionsShort(pos, n, data) ==
    [i \in 1 .. n |-> IF i < n /\ pos[i] = data THEN 0 ELSE pos[i]]

\* The loop that takes the new position away from whoever holds it.
ScanPositions(pos, n, data) ==
    [i \in 1 .. n |-> IF pos[i] = data THEN 0 ELSE pos[i]]

SetPosition(pos, car, data) == [pos EXCEPT ![car] = data]

\* case CAR_POSITION_UPDATE with the row cleared after the positions have
\* changed.
PositionUpdateLate(s, p) ==
    LET s1 == [s EXCEPT !.car_position =
                   SetPosition(ScanPositions(s.car_position, s.num_cars,
                                             p.data), p.car, p.data)]
        s2 == ClearCar(Call(s1, "clear_car", p.car, s1.car_position[p.car]),
                       p.car)
    IN IF ~s2.alive THEN s2
       ELSE IF p.data # 0
            THEN UpdateCar(Call(s2, "update_car", p.car,
                                s2.car_position[p.car]), p.car)
            ELSE s2

\* case CAR_POSITION_UPDATE.
PositionUpdate(s, p) ==
    LET s1 == ClearCar(Call(s, "clear_car", p.car, s.car_position[p.car]),
                       p.car)
        s2 == [s1 EXCEPT !.car_position =
                   SetPosition(ScanPositions(s1.car_position, s1.num_cars,
                                             p.data), p.car, p.data)]
    IN IF ~s1.alive THEN s1
       ELSE IF p.data # 0
            THEN UpdateCar(Call(s2, "update_car", p.car,
                                s2.car_position[p.car]), p.car)
            ELSE s2

\* The bytes strcpy copies: the payload up to its first NUL.
CString(payload) ==
    LET nul == {i \in 1 .. Len(payload) : payload[i] = 0}
    IN IF nul = {} THEN payload
       ELSE SubSeq(payload, 1, (CHOOSE i \in nul : \A j \in nul : i <= j) - 1)

\* strcpy (atom->text, packet->payload).  The text and its NUL fit in
\* TextSize bytes or run over the end of the atom: then the process dies
\* (ub.crash), or the bytes land in what follows, the next atom of the car.
CopyText(s, car, type, payload, ub) ==
    LET str == CString(payload)
        over == Len(str) + 1 - TextSize
    IN IF over <= 0
       THEN [s EXCEPT !.car_info[car][type].text = str]
       ELSE IF ub.crash
            THEN [s EXCEPT !.alive = FALSE, !.disp.overrun = over]
            ELSE LET s1 == [s EXCEPT !.car_info[car][type].text = str,
                                     !.disp.overrun = over]
                 IN IF type + 1 < LastCarPacket
                    THEN [s1 EXCEPT !.car_info[car][type + 1].data = ub.clobber]
                    ELSE s1

\* The default case with the text emptied when there is no payload.
DataAtomBlank(s, p, ub) ==
    LET s1 == [s EXCEPT !.car_info[p.car][p.type].data = p.data]
        s2 == IF p.len >= 0 THEN CopyText(s1, p.car, p.type, p.payload, ub)
              ELSE [s1 EXCEPT !.car_info[p.car][p.type].text = <<>>]
    IN IF ~s2.alive THEN s2
       ELSE UpdateCell(Call(s2, "update_cell", p.car, p.type), p.car, p.type)

\* The default case: a data atom.
DataAtom(s, p, ub) ==
    LET s1 == [s EXCEPT !.car_info[p.car][p.type].data = p.data]
        s2 == IF p.len >= 0 THEN CopyText(s1, p.car, p.type, p.payload, ub)
              ELSE s1
    IN IF ~s2.alive THEN s2
       ELSE UpdateCell(Call(s2, "update_cell", p.car, p.type), p.car, p.type)

HandleCarPacket(s, p, ub) ==
    LET s1 == EnsureCar(s, p.car)
    IN IF ~s1.alive THEN s1
       ELSE IF p.type = CAR_POSITION_UPDATE THEN PositionUpdate(s1, p)
       ELSE IF p.type = CAR_POSITION_HISTORY THEN s1
       ELSE DataAtom(s1, p, ub)

-----------------------------------------------------------------------------
(* packet.c: handle_system_packet.                                         *)

\* number *= 10; number += payload[i] - '0', over payload[from ..], in
\* unsigned int arithmetic.
RECURSIVE DecimalFold(_, _, _)
DecimalFold(payload, i, number) ==
    IF i > Len(payload) THEN number
    ELSE DecimalFold(payload, i + 1,
                     MulAdd(number, 10, payload[i] - Char0))

\* The event number of SYS_EVENT_ID: the loop starts at the second byte and
\* runs while i < packet->len, i being unsigned.  A negative len compares as
\* a huge unsigned one and the loop reads far past the payload: the number
\* is then whatever those bytes give.
EventNumber(p, ub) ==
    IF p.len < 0 THEN ub.number ELSE DecimalFold(p.payload, 2, 0)

\* The bytes taken from the first to the last.
RECURSIVE ByteFoldBig(_, _, _)
ByteFoldBig(payload, i, number) ==
    IF i = 0 THEN number
    ELSE ByteFoldBig(payload, i - 1,
                     MulAdd(number, 256, payload[Len(payload) - i + 1]))

\* number <<= 8; number |= payload[--i], from the last byte to the first.
RECURSIVE ByteFold(_, _, _)
ByteFold(payload, i, number) ==
    IF i = 0 THEN number
    ELSE ByteFold(payload, i - 1, MulAdd(number, 256, payload[i]))

\* The frame number of SYS_KEY_FRAME; i = packet->len is unsigned, so a
\* negative len again reads outside the payload.
FrameNumber(p, ub) ==
    IF p.len < 0 THEN ub.number ELSE ByteFold(p.payload, Len(p.payload), 0)

\* The loop with the groups taken as two decimal digits each.
RECURSIVE DurationFoldHundred(_, _, _, _)
DurationFoldHundred(payload, i, total, number) ==
    IF i > Len(payload) THEN MulAdd(total, 100, number)
    ELSE IF payload[i] = CharColon
         THEN DurationFoldHundred(payload, i + 1,
                                  MulAdd(total, 100, number), 0)
         ELSE DurationFoldHundred(payload, i + 1, total,
                                  MulAdd(number, 10, payload[i] - Char0))

\* The H:MM:SS loop of SYS_WEATHER, field 0.
RECURSIVE DurationFold(_, _, _, _)
DurationFold(payload, i, total, number) ==
    IF i > Len(payload) THEN MulAdd(total, 60, number)
    ELSE IF payload[i] = CharColon
         THEN DurationFold(payload, i + 1, MulAdd(total, 60, number), 0)
         ELSE DurationFold(payload, i + 1, total,
                           MulAdd(number, 10, payload[i] - Char0))

\* The fields an event start sets, the reset with the frame counter added.
EventResetFrame(s, p, number, k) ==
    [s EXCEPT !.key = k, !.event_no = number, !.event_type = p.data,
              !.epoch_time = 0, !.remaining_time = 0, !.lap = 0,
              !.num_cars = 0, !.car_position = <<>>, !.car_info = <<>>,
              !.frame = 0]

\* The fields an event start sets, the session clock left running.
EventResetNoClock(s, p, number, k) ==
    [s EXCEPT !.key = k, !.event_no = number, !.event_type = p.data,
              !.lap = 0, !.num_cars = 0, !.car_position = <<>>,
              !.car_info = <<>>]

\* The fields an event start sets, from the key to the freed tables.
EventReset(s, p, number, k) ==
    [s EXCEPT !.key = k,
              !.event_no = number,
              !.event_type = p.data,
              !.epoch_time = 0,
              !.remaining_time = 0,
              !.lap = 0,
              !.num_cars = 0,
              !.car_position = <<>>,
              !.car_info = <<>>]

\* case SYS_EVENT_ID with the key asked for after the board is redrawn.
EventStartLate(s, p, ub) ==
    LET number == EventNumber(p, ub)
        s1 == EventReset(s, p, number, ub.key)
        s2 == Call(s1, "reset_decryption", 0, 0)
        s3 == ClearBoard(CallBoard(s2), 1)
        s4 == Call(s3, "obtain_decryption_key", number, 0)
    IN IF p.len < 0 /\ ub.crash THEN [s EXCEPT !.alive = FALSE]
       ELSE IF ~s4.alive THEN s4
       ELSE Call(s4, "info", 3, 0)

\* case SYS_EVENT_ID.
EventStart(s, p, ub) ==
    LET number == EventNumber(p, ub)
        s1 == Call(s, "obtain_decryption_key", number, 0)
        s2 == EventReset(s1, p, number, ub.key)
        s3 == Call(s2, "reset_decryption", 0, 0)
        s4 == ClearBoard(CallBoard(s3), 1)
    IN IF p.len < 0 /\ ub.crash THEN [s EXCEPT !.alive = FALSE]
       ELSE IF ~s4.alive THEN s4
       ELSE Call(s4, "info", 3, 0)

\* Every key frame taken for the first.
KeyFrameWantedAlways(s) == TRUE

\* if (! state->frame): no key frame has been met yet.
KeyFrameWanted(s) == s.frame = 0

\* case SYS_KEY_FRAME, up to the return of obtain_key_frame when that is
\* called, and all of it otherwise.
KeyFrameHead(s, p, ub) ==
    LET number == FrameNumber(p, ub)
        s1 == Call(s, "reset_decryption", 0, 0)
    IN IF p.len < 0 /\ ub.crash THEN [s EXCEPT !.alive = FALSE]
       ELSE IF KeyFrameWanted(s)
            THEN Call([s1 EXCEPT !.frame = number], "obtain_key_frame",
                      number, 0)
            ELSE [s1 EXCEPT !.frame = number]

\* The return without the second reset.
KeyFrameTailBare(s) == s

\* The return with the key frame counter cleared.
KeyFrameTailZero(s) ==
    Call([s EXCEPT !.frame = 0], "reset_decryption", 0, 0)

\* case SYS_KEY_FRAME, after obtain_key_frame has returned.
KeyFrameTail(s) == Call(s, "reset_decryption", 0, 0)

\* state->epoch_time = time (NULL).
StampEpoch(s, now) == [Call(s, "time", now, 0) EXCEPT !.epoch_time = now]

\* case SYS_WEATHER with the clock stamped by every packet of field 0.
WeatherEager(s, p, now) ==
    IF p.data # 0 THEN s
    ELSE LET s1 == IF p.len > 0
                   THEN [StampEpoch(s, now)
                            EXCEPT !.remaining_time =
                                       DurationFold(p.payload, 1, 0, 0)]
                   ELSE StampEpoch(s, now)
         IN Call(Call(s1, "close_popup", 0, 0), "update_time", 0, 0)

\* case SYS_WEATHER.
Weather(s, p, now) ==
    IF p.data # 0 THEN s
    ELSE LET s1 == IF p.len > 0
                   THEN [(IF s.epoch_time # 0 THEN StampEpoch(s, now) ELSE s)
                            EXCEPT !.remaining_time =
                                       DurationFold(p.payload, 1, 0, 0)]
                   ELSE StampEpoch(s, now)
         IN Call(Call(s1, "close_popup", 0, 0), "update_time", 0, 0)

\* update_status of display.c, as far as the board goes.
UpdateStatus(s) == OpenBoard(s)

\* case SYS_TRACK_STATUS.  payload[0] of a packet without payload is what
\* the buffer held before.
TrackStatus(s, p, ub) ==
    IF p.data # 1 THEN s
    ELSE LET byte == IF Len(p.payload) > 0 THEN p.payload[1] ELSE ub.byte
             s1 == [s EXCEPT !.flag = byte - Char0]
         IN UpdateStatus(Call(s1, "update_status", 0, 0))

\* The notices shown on the status line as well.
NoticeLoud(s, p) ==
    UpdateStatus(Call(Call(s, "info",
                           IF p.sys = "SYS_COPYRIGHT" THEN 2 ELSE 0, 0),
                      "update_status", 0, 0))

\* case SYS_COPYRIGHT and case SYS_NOTICE.
Notice(s, p) ==
    Call(s, "info", IF p.sys = "SYS_COPYRIGHT" THEN 2 ELSE 0, 0)

\* The system packet types that return at once; SYS_KEY_FRAME is the one
\* that does not.
HandleSystemPacket(s, p, ub) ==
    IF p.sys = "SYS_EVENT_ID" THEN EventStart(s, p, ub)
    ELSE IF p.sys = "SYS_WEATHER" THEN Weather(s, p, ub.now)
    ELSE IF p.sys = "SYS_TRACK_STATUS" THEN TrackStatus(s, p, ub)
    ELSE IF p.sys \in {"SYS_COPYRIGHT", "SYS_NOTICE"} THEN Notice(s, p)
    ELSE s

-----------------------------------------------------------------------------
(* What the reducers do not decide: the outcome of undefined behaviour,    *)
(* the clock, and the key the key provider returns (0: it failed).         *)

NoUB == [crash |-> FALSE, clobber |-> 0, number |-> 0, byte |-> 0,
         now |-> 0, key |-> 0]

\* Values memory outside an object may hold.
Garbage == {0, 3}

\* An atom text that does not fit: the overrun kills the process or
\* overwrites the next atom's data.
TextEnv(p) ==
    IF p.len >= 0 /\ Len(CString(p.payload)) + 1 > TextSize
    THEN {[NoUB EXCEPT !.crash = TRUE]}
             \cup {[NoUB EXCEPT !.clobber = c] : c \in Garbage}
    ELSE {NoUB}

\* A numeral decoder handed a negative len.
NumberEnv(p) ==
    IF p.len < 0
    THEN {[NoUB EXCEPT !.crash = TRUE]}
             \cup {[NoUB EXCEPT !.number = n] : n \in Garbage}
    ELSE {NoUB}

\* payload[0] of a packet without payload.
ByteEnv(p) ==
    IF Len(p.payload) = 0 THEN {[NoUB EXCEPT !.byte = Char0 + b] : b \in Garbage}
    ELSE {NoUB}

-----------------------------------------------------------------------------
(* The machine.  A feed F is the set of packets the stream (and a key      *)
(* frame replay) may deliver, with the clock values and keys of the        *)
(* environment.                                                            *)

Init ==
    /\ num_cars = 0
    /\ car_position = <<>>
    /\ car_info = <<>>
    /\ event_no = 0
    /\ event_type = 0
    /\ epoch_time = 0
    /\ remaining_time = 0
    /\ lap = 0
    /\ flag = 0
    /\ frame = 0
    /\ key = 0
    /\ cursed = FALSE
    /\ nlines = 0
    /\ alive = TRUE
    /\ pkt = NoPacket
    /\ calls = <<>>
    /\ disp = NoDisplay
    /\ old_position = <<>>
    /\ markers = [run |-> 0, session |-> 0]
    /\ stack = <<>>
    /\ returned = "void"
    /\ reply = "none"

\* The count of key frame markers, as far as it is told apart: none or
\* some in the run, none, one or more in the session.
Marked(p) ==
    IF p.sys = "SYS_EVENT_ID" THEN [markers EXCEPT !.session = 0]
    ELSE IF p.sys = "SYS_KEY_FRAME"
         THEN [run |-> 1, session |-> IF markers.session = 0 THEN 1 ELSE 2]
         ELSE markers

\* The answer of obtain_decryption_key: a key, or 0 when it failed.
KeyReply(r, p) ==
    IF p.sys = "SYS_EVENT_ID" /\ r.alive
    THEN IF r.key = 0 THEN "failed" ELSE "ok"
    ELSE "none"

\* How deep the replays of a feed are followed.
Depth(F) == IF "depth" \in DOMAIN F THEN F.depth ELSE MaxDepth

\* One packet through one handler, start to end.
Reduce(r, p) ==
    /\ Assign(r)
    /\ pkt' = p
    /\ markers' = Marked(p)
    /\ reply' = KeyReply(r, p)
    /\ UNCHANGED stack

OnPositionUpdate(F) ==
    /\ alive
    /\ \E p \in F.pkts :
          /\ p.car > 0 /\ p.type = CAR_POSITION_UPDATE
          /\ Reduce(HandleCarPacket(S, p, NoUB), p)

OnPositionHistory(F) ==
    /\ alive
    /\ \E p \in F.pkts :
          /\ p.car > 0 /\ p.type = CAR_POSITION_HISTORY
          /\ Reduce(HandleCarPacket(S, p, NoUB), p)

OnDataAtom(F) ==
    /\ alive
    /\ \E p \in F.pkts :
          /\ p.car > 0 /\ p.type \in AtomTypes
          /\ \E ub \in TextEnv(p) : Reduce(HandleCarPacket(S, p, ub), p)

OnEventStart(F) ==
    /\ alive
    /\ \E p \in F.pkts :
          /\ p.sys = "SYS_EVENT_ID"
          /\ \E ub \in NumberEnv(p), k \in F.keys :
                Reduce(HandleSystemPacket(S, p, [ub EXCEPT !.key = k]), p)

\* A key frame met with frame = 0: the handler runs up to its call of
\* obtain_key_frame and waits there for the replay to end.
OnFirstKeyFrame(F) ==
    /\ alive
    /\ KeyFrameWanted(S)
    /\ Len(stack) < Depth(F)
    /\ \E p \in F.pkts :
          /\ p.sys = "SYS_KEY_FRAME"
          /\ \E ub \in NumberEnv(p) :
                LET r == KeyFrameHead(S, p, ub)
                IN /\ Assign(r)
                   /\ pkt' = p
                   /\ markers' = Marked(p)
                   /\ reply' = "none"
                   /\ stack' = IF r.alive
                               THEN Append(stack, [pkt |-> p, calls |-> r.calls])
                               ELSE stack

\* obtain_key_frame returns and the suspended handler runs to its end.
OnKeyFrameReturn(F) ==
    /\ alive
    /\ stack # <<>>
    /\ LET top == stack[Len(stack)]
       IN /\ Assign(KeyFrameTail([S EXCEPT !.calls = top.calls]))
          /\ pkt' = top.pkt
          /\ reply' \in F.frames
          /\ UNCHANGED markers
          /\ stack' = SubSeq(stack, 1, Len(stack) - 1)

OnNextKeyFrame(F) ==
    /\ alive
    /\ ~KeyFrameWanted(S)
    /\ \E p \in F.pkts :
          /\ p.sys = "SYS_KEY_FRAME"
          /\ \E ub \in NumberEnv(p) : Reduce(KeyFrameHead(S, p, ub), p)

OnWeather(F) ==
    /\ alive
    /\ \E p \in F.pkts :
          /\ p.sys = "SYS_WEATHER"
          /\ \E now \in F.times :
                Reduce(HandleSystemPacket(S, p, [NoUB EXCEPT !.now = now]), p)

OnTrackStatus(F) ==
    /\ alive
    /\ \E p \in F.pkts :
          /\ p.sys = "SYS_TRACK_STATUS"
          /\ \E ub \in ByteEnv(p) : Reduce(HandleSystemPacket(S, p, ub), p)

OnNotice(F) ==
    /\ alive
    /\ \E p \in F.pkts :
          /\ p.sys \in {"SYS_COPYRIGHT", "SYS_NOTICE"}
          /\ Reduce(HandleSystemPacket(S, p, NoUB), p)

OnOtherSystem(F) ==
    /\ alive
    /\ \E p \in F.pkts :
          /\ p.car = 0
          /\ p.sys \notin {"SYS_EVENT_ID", "SYS_KEY_FRAME", "SYS_WEATHER",
                           "SYS_TRACK_STATUS", "SYS_COPYRIGHT", "SYS_NOTICE"}
          /\ Reduce(HandleSystemPacket(S, p, NoUB), p)

Step(F) ==
    \/ OnPositionUpdate(F)
    \/ OnPositionHistory(F)
    \/ OnDataAtom(F)
    \/ OnEventStart(F)
    \/ OnFirstKeyFrame(F)
    \/ OnKeyFrameReturn(F)
    \/ OnNextKeyFrame(F)
    \/ OnWeather(F)
    \/ OnTrackStatus(F)
    \/ OnNotice(F)
    \/ OnOtherSystem(F)

-----------------------------------------------------------------------------
(* Feeds. *)

Text(n) == [i \in 1 .. n |-> 65]

\* "_7": the odd byte, then the event number in decimal.
EventPayload7 == <<95, Char0 + 7>>
EventPayload12 == <<95, Char0 + 1, Char0 + 2>>

\* One packet of every kind, each the one that changes least: a car that
\* joins without a position, a colour that is the colour the atom has, the
\* unhandled fields of the weather and the track status.
IdleCarPackets ==
    {CarPacket(1, CAR_POSITION_UPDATE, 0, 0, <<>>),
     CarPacket(1, CAR_POSITION_HISTORY, 0, 0, <<>>),
     CarPacket(1, 1, 0, -1, <<>>)}

IdleEventPackets ==
    {SysPacket("SYS_EVENT_ID", RACE_EVENT, 2, EventPayload7),
     SysPacket("SYS_KEY_FRAME", 0, 1, <<1>>)}

IdleSystemPackets ==
    {SysPacket("SYS_WEATHER", 1, 2, <<Char0 + 2, Char0 + 1>>),
     SysPacket("SYS_TRACK_STATUS", 2, 1, <<Char0 + 1>>),
     SysPacket("SYS_NOTICE", 0, 1, <<65>>),
     SysPacket("SYS_TIMESTAMP", 0, 2, <<1, 2>>)}

\* Every position update and position history of every car.
BoardPackets ==
    {CarPacket(c, CAR_POSITION_UPDATE, d, 0, <<>>) :
         c \in 1 .. MaxCars, d \in 0 .. MaxPos}
        \cup {CarPacket(c, CAR_POSITION_HISTORY, 0, 0, <<>>) : c \in 1 .. MaxCars}

BoardFeed == [pkts |-> IdleCarPackets \cup IdleEventPackets
                           \cup IdleSystemPackets \cup BoardPackets,
              times |-> {100}, keys |-> {5}, frames |-> {"ok"}]

Next == Step(BoardFeed)

Spec == Init /\ [][Next]_vars

\* Key frame markers of every kind, among them the number 0 and the one
\* without payload, in sessions that start over.
SessionPackets ==
    {SysPacket("SYS_EVENT_ID", RACE_EVENT, 3, EventPayload12),
     SysPacket("SYS_KEY_FRAME", 0, 1, <<0>>),
     SysPacket("SYS_KEY_FRAME", 0, 1, <<2>>),
     SysPacket("SYS_KEY_FRAME", 0, 2, <<0, 1>>),
     SysPacket("SYS_KEY_FRAME", 0, -1, <<>>)}

SessionFeed == [pkts |-> IdleCarPackets \cup IdleSystemPackets
                             \cup SessionPackets,
                times |-> {100}, keys |-> {5}, frames |-> {"ok"}]

NextSession == Step(SessionFeed)

SpecSession == Init /\ [][NextSession]_vars

\* Event starts of every kind, among them the one without payload, met
\* with a car on the board, a coloured atom, a running session clock and a
\* key frame counter.
ResetPackets ==
    {SysPacket("SYS_EVENT_ID", RACE_EVENT, 3, EventPayload12),
     SysPacket("SYS_EVENT_ID", PRACTICE_EVENT, 1, <<95>>),
     SysPacket("SYS_EVENT_ID", RACE_EVENT, -1, <<>>),
     SysPacket("SYS_KEY_FRAME", 0, 1, <<1>>),
     SysPacket("SYS_WEATHER", 0, 2, <<Char0 + 5, Char0 + 9>>),
     SysPacket("SYS_WEATHER", 0, -1, <<>>),
     CarPacket(1, CAR_POSITION_UPDATE, 1, 0, <<>>),
     CarPacket(1, 1, 1, -1, <<>>)}

ResetFeed == [pkts |-> IdleCarPackets \cup IdleSystemPackets
                           \cup ResetPackets,
              times |-> {100}, keys |-> {5}, frames |-> {"ok"}]

NextReset == Step(ResetFeed)

SpecReset == Init /\ [][NextReset]_vars

\* Atoms of the first and the last car with and without text: the empty
\* text, the longest that fits, the longest there is and one with a NUL
\* inside, and a row for the last car.
AtomPackets ==
    {CarPacket(1, 1, 1, n, Text(n)) : n \in {0, TextSize - 1, MaxLen}}
        \cup {CarPacket(c, 1, 2, -1, <<>>) : c \in {1, MaxCars}}
        \cup {CarPacket(MaxCars, 1, 1, MaxLen, Text(MaxLen)),
              CarPacket(1, 1, 1, MaxLen, [Text(MaxLen) EXCEPT ![2] = 0]),
              CarPacket(MaxCars, CAR_POSITION_UPDATE, 1, 0, <<>>)}

AtomsFeed == [pkts |-> IdleCarPackets \cup IdleEventPackets
                           \cup IdleSystemPackets \cup AtomPackets,
              times |-> {100}, keys |-> {5}, frames |-> {"ok"}]

NextAtoms == Step(AtomsFeed)

SpecAtoms == Init /\ [][NextAtoms]_vars

\* Key frame markers of one to four bytes, the bytes 0, 1, 255 and others,
\* the top bit of the unsigned int set and not.
FramePackets ==
    {SysPacket("SYS_KEY_FRAME", 0, Len(b), b) :
         b \in {<<2>>, <<255>>, <<1, 0>>, <<0, 1>>, <<255, 255>>, <<1, 2, 3>>,
                <<1, 2, 3, 4>>, <<0, 0, 0, 128>>, <<255, 255, 255, 255>>}}

FramesFeed == [pkts |-> IdleCarPackets \cup IdleEventPackets
                            \cup IdleSystemPackets \cup FramePackets,
               times |-> {100}, keys |-> {5}, frames |-> {"ok"}]

NextFrames == Step(FramesFeed)

SpecFrames == Init /\ [][NextFrames]_vars

\* "1:02:03", "2:03", "59" and "0:00:00".
Duration(h, m, s) ==
    <<Char0 + h, CharColon, Char0 + (m \div 10), Char0 + (m % 10), CharColon,
      Char0 + (s \div 10), Char0 + (s % 10)>>

\* Session clock packets with a duration of one, two and three groups, and
\* the ones without payload.
ClockPackets ==
    {SysPacket("SYS_WEATHER", 0, Len(b), b) :
         b \in {Duration(1, 2, 3), Duration(0, 0, 0),
                <<Char0 + 2, CharColon, Char0, Char0 + 3>>,
                <<Char0 + 5, Char0 + 9>>, <<>>}}
        \cup {SysPacket("SYS_WEATHER", 0, -1, <<>>)}

ClockFeed == [pkts |-> IdleCarPackets \cup IdleEventPackets
                           \cup IdleSystemPackets \cup ClockPackets,
              times |-> {100, 200}, keys |-> {5},
              frames |-> {"ok"}]

NextClock == Step(ClockFeed)

SpecClock == Init /\ [][NextClock]_vars

\* The packets that are only passed on or ignored, with and without
\* payload, among the ones that give the state something to lose: a car on
\* the board with an atom, a flag and a session clock.
QuietPackets ==
    {SysPacket("SYS_COPYRIGHT", 0, 1, <<65>>),
     SysPacket("SYS_NOTICE", 0, -1, <<>>),
     SysPacket("SYS_WEATHER", 2, -1, <<>>),
     SysPacket("SYS_TRACK_STATUS", 0, 0, <<>>),
     SysPacket("SYS_SPEED", 1, 1, <<Char0 + 1>>),
     CarPacket(MaxCars, CAR_POSITION_HISTORY, 1, 1, <<65>>),
     SysPacket("SYS_WEATHER", 0, 2, <<Char0 + 5, Char0 + 9>>),
     SysPacket("SYS_WEATHER", 0, -1, <<>>),
     SysPacket("SYS_TRACK_STATUS", 1, 1, <<Char0 + 2>>),
     CarPacket(1, CAR_POSITION_UPDATE, 1, 0, <<>>),
     CarPacket(MaxCars, CAR_POSITION_UPDATE, 1, 0, <<>>),
     CarPacket(MaxCars, CAR_POSITION_UPDATE, MaxPos, 0, <<>>),
     CarPacket(1, 1, 1, 1, Text(1))}

QuietFeed == [pkts |-> IdleCarPackets \cup IdleEventPackets
                           \cup IdleSystemPackets \cup QuietPackets,
              times |-> {100}, keys |-> {5}, frames |-> {"ok"}]

NextQuiet == Step(QuietFeed)

SpecQuiet == Init /\ [][NextQuiet]_vars

\* Event starts and key frame markers with a key provider and a key frame
\* provider that answer or fail.
FailFeed == [pkts |-> IdleCarPackets \cup IdleEventPackets
                          \cup IdleSystemPackets
                          \cup {SysPacket("SYS_EVENT_ID", PRACTICE_EVENT, 3,
                                           EventPayload12),
                                SysPacket("SYS_KEY_FRAME", 0, 1, <<0>>),
                                CarPacket(1, CAR_POSITION_UPDATE, 1, 0, <<>>)},
             times |-> {100}, keys |-> {0, 5}, frames |-> {"ok", "failed"}]

NextFail == Step(FailFeed)

SpecFail == Init /\ [][NextFail]_vars

\* Position updates for the rows about the end of the board window and of
\* the terminal.
RowPackets ==
    {CarPacket(c, CAR_POSITION_UPDATE, d, 0, <<>>) :
         c \in {1, MaxCars},
         d \in {MIN_CARS, MIN_CARS + 1, TermLines - 1, TermLines}}
        \cup {CarPacket(1, 1, 1, 1, Text(1))}

RowsFeed == [pkts |-> IdleCarPackets \cup IdleEventPackets
                          \cup IdleSystemPackets \cup RowPackets,
             times |-> {100}, keys |-> {5}, frames |-> {"ok"}]

NextRows == Step(RowsFeed)

SpecRows == Init /\ [][NextRows]_vars

\* Key frame markers with the number 0 and another, in replays followed one
\* level deeper than elsewhere.
NestedFeed == [pkts |-> IdleCarPackets \cup IdleEventPackets
                            \cup IdleSystemPackets
                            \cup {SysPacket("SYS_KEY_FRAME", 0, 1, <<0>>)},
               times |-> {100}, keys |-> {5}, frames |-> {"ok"},
               depth |-> MaxDepth + 1]

NextNested == Step(NestedFeed)

SpecNested == Init /\ [][NextNested]_vars

\* An event start and a key frame marker without payload.
SentinelFeed == [pkts |-> IdleCarPackets \cup IdleEventPackets
                              \cup IdleSystemPackets
                              \cup {SysPacket("SYS_EVENT_ID", RACE_EVENT, -1,
                                               <<>>),
                                    SysPacket("SYS_EVENT_ID", RACE_EVENT, 0,
                                               <<>>),
                                    SysPacket("SYS_KEY_FRAME", 0, -1, <<>>)},
                 times |-> {100}, keys |-> {5}, frames |-> {"ok"}]

NextSentinel == Step(SentinelFeed)

SpecSentinel == Init /\ [][NextSentinel]_vars

-----------------------------------------------------------------------------
(* C1.  Board-row uniqueness: after every packet of any sequence of car    *)
(* and system packets, every non-zero position is the car_position of at   *)
(* most one car id in 1 .. num_cars.                                       *)
BoardRowsUnique ==
    /\ Len(car_position) = num_cars
    /\ \A a, b \in 1 .. num_cars :
          (a # b /\ car_position[a] # 0) => car_position[a] # car_position[b]

\* A position update has just given a car the row another car held.
BoardRowTaken ==
    /\ alive
    /\ pkt.car > 0 /\ pkt.type = CAR_POSITION_UPDATE /\ pkt.data # 0
    /\ car_position[pkt.car] = pkt.data
    /\ \E a \in 1 .. Len(old_position) :
          a # pkt.car /\ old_position[a] = pkt.data

(* C6.  Duplicate-position resolution is order independent: with car A at *)
(* a non-zero position p and car B elsewhere, the updates (A, 0) then      *)
(* (B, p), the updates (B, p) then (A, 0), and the update (B, p) alone     *)
(* all end with A at 0 and B at p.  Checked from every reachable state,    *)
(* for every such A, B and p.                                              *)
UpdateOf(car, data) == CarPacket(car, CAR_POSITION_UPDATE, data, 0, <<>>)

DuplicateResolved ==
    alive =>
      \A a, b \in 1 .. num_cars :
        (a # b /\ car_position[a] # 0 /\ car_position[b] # car_position[a]) =>
          LET p == car_position[a]
              clearA == UpdateOf(a, 0)
              assignB == UpdateOf(b, p)
              first == HandleCarPacket(HandleCarPacket(S, clearA, NoUB),
                                       assignB, NoUB)
              second == HandleCarPacket(HandleCarPacket(S, assignB, NoUB),
                                        clearA, NoUB)
              alone == HandleCarPacket(S, assignB, NoUB)
          IN \A r \in {first, second, alone} :
                r.alive => r.car_position[a] = 0 /\ r.car_position[b] = p

\* Car B has just taken the row of car A, coming from a row of its own.
DuplicateTaken ==
    /\ alive
    /\ pkt.car > 0 /\ pkt.type = CAR_POSITION_UPDATE /\ pkt.data # 0
    /\ \E a \in 1 .. Len(old_position) :
          /\ a # pkt.car /\ pkt.car <= Len(old_position)
          /\ old_position[a] = pkt.data
          /\ old_position[pkt.car] \notin {0, pkt.data}
          /\ car_position[a] = 0
          /\ car_position[pkt.car] = pkt.data

-----------------------------------------------------------------------------
\* The step reduces a key frame marker (it is not the return of a replay).
KeyFrameStep ==
    /\ alive'
    /\ pkt'.sys = "SYS_KEY_FRAME"
    /\ Len(stack') >= Len(stack)

\* How often a reduction asked for a key frame snapshot.
Requests(c) == Cardinality({i \in DOMAIN c : c[i].op = "obtain_key_frame"})

Resets(c) == Cardinality({i \in DOMAIN c : c[i].op = "reset_decryption"})

\* The value of a payload read as a little-endian number.
RECURSIVE LittleEndian(_)
LittleEndian(payload) ==
    IF payload = <<>> THEN 0
    ELSE Head(payload) + 256 * LittleEndian(Tail(payload))

\* The value of a payload read as a decimal numeral.
RECURSIVE DecimalValue(_)
DecimalValue(payload) ==
    IF payload = <<>> THEN 0
    ELSE 10 * DecimalValue(SubSeq(payload, 1, Len(payload) - 1))
             + (payload[Len(payload)] - Char0)

\* The marker only stored its number: nothing of the race state but frame
\* changed.
FrameOnly ==
    /\ pkt'.len >= 0 => frame' = LittleEndian(pkt'.payload)
    /\ UNCHANGED <<num_cars, car_position, car_info, event_no, event_type,
                   epoch_time, remaining_time, lap, flag, key>>

(* C2 as claimed.  In every session (from one event start to the next, and *)
(* before the first) the first key frame marker asks for exactly one key   *)
(* frame snapshot and every later one of the session asks for none and     *)
(* only stores its number in frame.                                        *)
FirstKeyFramePerSession ==
    [][KeyFrameStep =>
          IF markers.session = 0 THEN Requests(calls') = 1
          ELSE Requests(calls') = 0 /\ FrameOnly]_vars

(* C2 as amended.  A key frame marker asks for exactly one key frame       *)
(* snapshot when frame is 0 as its reduction starts, which it is for the   *)
(* first marker of the run, and for none when frame is not 0: then it only *)
(* stores its number in frame.  An event start does not touch frame.       *)
FirstKeyFramePerRun ==
    [][KeyFrameStep =>
          /\ Requests(calls') = IF frame = 0 THEN 1 ELSE 0
          /\ frame # 0 => FrameOnly
          /\ markers.run = 0 => Requests(calls') = 1]_vars

\* The first key frame marker of a session has gone by without a snapshot.
FirstOfSessionUnasked ==
    /\ alive
    /\ pkt.sys = "SYS_KEY_FRAME"
    /\ markers.session = 1
    /\ Requests(calls) = 0
    /\ frame = 2

(* C10.  Every key frame marker calls reset_decryption first.  With frame  *)
(* 0 beforehand the order is reset_decryption, frame := number,            *)
(* obtain_key_frame (host, number), reset_decryption; with frame not 0     *)
(* there is the one reset_decryption, frame := number and no snapshot.     *)
KeyFrameCallOrder ==
    (alive /\ pkt.sys = "SYS_KEY_FRAME") =>
      /\ Len(calls) >= 1
      /\ calls[1].op = "reset_decryption"
      /\ IF calls[1].at.frame = 0
         THEN /\ Len(calls) \in {2, 3}
              /\ calls[2].op = "obtain_key_frame"
              /\ calls[2].at.frame = calls[2].a
              /\ pkt.len >= 0 => calls[2].a = LittleEndian(pkt.payload)
              /\ Len(calls) = 2 =>
                    /\ stack # <<>>
                    /\ stack[Len(stack)] = [pkt |-> pkt, calls |-> calls]
                    /\ frame = calls[2].a
              /\ Len(calls) = 3 => calls[3].op = "reset_decryption"
         ELSE /\ Len(calls) = 1
              /\ pkt.len >= 0 => frame = LittleEndian(pkt.payload)

\* A first key frame has come back from its replay, which had reduced
\* packets of its own.
KeyFrameReplayed ==
    /\ alive
    /\ pkt.sys = "SYS_KEY_FRAME"
    /\ Len(calls) = 3
    /\ stack = <<>>
    /\ num_cars > 0
    /\ event_no = 12

(* C3 as claimed.  Right after an event start the key frame counter frame  *)
(* is 0, whatever it was before.                                           *)
FrameZeroAfterStart ==
    (alive /\ pkt.sys = "SYS_EVENT_ID") => frame = 0

(* C3 as amended.  An event start leaves the key frame counter frame as it *)
(* was: right after it frame is 0 only if it was 0 before, and the next    *)
(* key frame marker is a first one only then.                              *)
FrameKeptByStart ==
    [][(alive' /\ pkt'.sys = "SYS_EVENT_ID") => frame' = frame]_vars

\* An event start has just been reduced and frame still holds a number.
StartedWithFrame ==
    /\ alive
    /\ pkt.sys = "SYS_EVENT_ID"
    /\ frame # 0
    /\ num_cars = 0

(* C4.  After an event start lap, num_cars, remaining_time and epoch_time  *)
(* are 0, both tables are empty, event_no is the decoded event number (the *)
(* one the key was asked for) and event_type is packet.data, and           *)
(* reset_decryption was called exactly once in that reduction.             *)
SessionReset ==
    (alive /\ pkt.sys = "SYS_EVENT_ID") =>
      /\ lap = 0 /\ num_cars = 0 /\ remaining_time = 0 /\ epoch_time = 0
      /\ car_position = <<>> /\ car_info = <<>>
      /\ event_type = pkt.data
      /\ calls[1].op = "obtain_decryption_key" /\ event_no = calls[1].a
      /\ pkt.len >= 1 =>
            event_no = DecimalValue(SubSeq(pkt.payload, 2, pkt.len))
      /\ Resets(calls) = 1

\* An event start has just cleared a board with a car on it and a running
\* session clock.
SessionWasRunning ==
    /\ alive
    /\ pkt.sys = "SYS_EVENT_ID"
    /\ event_no = 12
    /\ old_position # <<>> /\ old_position[1] # 0
    /\ \E i \in DOMAIN calls :
          calls[i].op = "reset_decryption" /\ calls[i].at.num_cars = 0

\* The atom a car packet addresses, in a table.
Addressed(info, p) == info[p.car][p.type]

(* C5.  After a data atom packet with len >= 0 the stored text is no       *)
(* longer than the atom's storage, a payload that is longer is rejected    *)
(* and nothing outside the atom is written, and the atom's data is         *)
(* packet.data.                                                            *)
AtomTextBounded ==
    (pkt.car > 0 /\ pkt.type \in AtomTypes /\ pkt.len >= 0) =>
      /\ alive
      /\ disp.overrun = 0
      /\ Len(Addressed(car_info, pkt).text) + 1 <= TextSize
      /\ Addressed(car_info, pkt).data = pkt.data

\* The clear_board calls of a reduction.
Redraws(c) == Cardinality({i \in DOMAIN c : c[i].op = "clear_board"})

(* C7.  A car packet of any type with car = N > num_cars leaves num_cars   *)
(* = N and asks for clear_board exactly once, and the tables the board is  *)
(* redrawn from hold every earlier car as it was and every car in (old     *)
(* num_cars, N] with position 0 and a table of the whole catalogue with    *)
(* data 0 and empty text.  What the packet itself then does leaves the     *)
(* atoms of every car but N alone and can only take a position away.       *)
GrowthPostcondition ==
    [][pkt'.car > num_cars =>
          LET N == pkt'.car
              grown == calls'[1].snap
          IN /\ num_cars' = N
             /\ calls'[1].op = "clear_board" /\ calls'[1].a = N
             /\ Redraws(calls') = 1
             /\ Len(grown[1]) = N /\ Len(grown[2]) = N
             /\ \A c \in 1 .. num_cars :
                   grown[1][c] = car_position[c] /\ grown[2][c] = car_info[c]
             /\ \A c \in (num_cars + 1) .. N :
                   /\ grown[1][c] = 0
                   /\ DOMAIN grown[2][c] = 0 .. (LastCarPacket - 1)
                   /\ \A j \in DOMAIN grown[2][c] :
                         grown[2][c][j].data = 0 /\ grown[2][c][j].text = <<>>
             /\ \A c \in 1 .. (N - 1) :
                   /\ car_info'[c] = grown[2][c]
                   /\ car_position'[c] \in {grown[1][c], 0}]_vars

\* The tables have just grown from one car with a text to MaxCars cars.
GrownPastOne ==
    /\ alive
    /\ pkt.car = MaxCars
    /\ num_cars = MaxCars
    /\ Len(old_position) = 1
    /\ car_info[1][1].text # <<>>
    /\ car_info[MaxCars][1].data # 0
    /\ Redraws(calls) = 1

(* C8.  From one event start to the next num_cars never decreases, and a   *)
(* car packet with 1 <= car <= num_cars leaves num_cars as it is and asks  *)
(* for no clear_board.                                                     *)
GrowthMonotone ==
    [][/\ pkt'.sys # "SYS_EVENT_ID" => num_cars' >= num_cars
       /\ (pkt'.car > 0 /\ pkt'.car <= num_cars) =>
             num_cars' = num_cars /\ Redraws(calls') = 0]_vars

\* A packet for the first of MaxCars cars has just been reduced.
KnownCarReduced ==
    /\ alive
    /\ pkt.car = 1
    /\ pkt.type \in AtomTypes
    /\ pkt.len > 0
    /\ num_cars = MaxCars
    /\ Len(old_position) = MaxCars
    /\ Redraws(calls) = 0

(* C9.  A data atom packet with len < 0 sets the addressed atom's data to  *)
(* packet.data and leaves its text as it was before (empty for a car the   *)
(* packet brought in).                                                     *)
ColourOnly ==
    [][(pkt'.car > 0 /\ pkt'.type \in AtomTypes /\ pkt'.len < 0) =>
          /\ Addressed(car_info', pkt').data = pkt'.data
          /\ Addressed(car_info', pkt').text =
                IF pkt'.car <= num_cars THEN Addressed(car_info, pkt').text
                ELSE <<>>]_vars

\* An atom with a text has just changed its colour.
ColourChanged ==
    /\ alive
    /\ pkt.car > 0 /\ pkt.type \in AtomTypes /\ pkt.len < 0
    /\ Addressed(car_info, pkt).data = 2
    /\ Addressed(car_info, pkt).text = Text(TextSize - 1)

\* The fields of the race state.
RaceState == <<num_cars, car_position, car_info, event_no, event_type,
               epoch_time, remaining_time, lap, flag, frame, key>>

\* The last call of a reduction.
LastCall(c) == IF c = <<>> THEN "" ELSE c[Len(c)].op

(* C11 as claimed.  No reducer is entered for a packet while the reduction *)
(* of another packet, a key frame marker waiting for its replay included,  *)
(* has not returned.                                                       *)
OneReductionAtATime ==
    [][stack # <<>> => Len(stack') < Len(stack)]_vars

(* C11 as amended.  Reductions never interleave, they nest: a reducer is   *)
(* entered while another reduction is unfinished only inside the replay of *)
(* a key frame marker met with frame 0, every packet of the replay is      *)
(* reduced to its end before the next, and when the replay returns the     *)
(* waiting marker goes on with its own packet, makes its second            *)
(* reset_decryption and changes no field of the race state.                *)
ReductionsNested ==
    [][/\ Len(stack') > Len(stack) =>
             /\ stack' = Append(stack, [pkt |-> pkt', calls |-> calls'])
             /\ pkt'.sys = "SYS_KEY_FRAME"
             /\ frame = 0
             /\ LastCall(calls') = "obtain_key_frame"
       /\ Len(stack') < Len(stack) =>
             /\ stack = Append(stack',
                               [pkt |-> pkt',
                                calls |-> SubSeq(calls', 1, Len(calls') - 1)])
             /\ LastCall(calls') = "reset_decryption"
             /\ UNCHANGED RaceState
       /\ Len(stack') = Len(stack) =>
             /\ stack' = stack
             /\ LastCall(calls') # "obtain_key_frame"]_vars

\* A car packet has been reduced while a key frame marker waits for its
\* replay to end.
ReplayRunning ==
    /\ alive
    /\ stack # <<>>
    /\ pkt.car > 0
    /\ LastCall(stack[Len(stack)].calls) = "obtain_key_frame"
    /\ num_cars > 0

\* Byte i of an unsigned int, byte 0 the lowest.
ByteOf(n, i) == (n \div (256 ^ i)) % 256

(* C12.  A key frame marker with a payload of 1 to 4 bytes stores in frame *)
(* the little-endian unsigned value of the payload, the sum of b[i] *      *)
(* 256^i: byte i of frame is b[i] and the bytes above the payload are 0;   *)
(* <<1, 0>> gives 1 and <<0, 1>> gives 256.                                *)
FrameLittleEndian ==
    [][(KeyFrameStep /\ pkt'.len \in 1 .. (UIntBits \div 8)) =>
          /\ \A i \in 0 .. (UIntBits \div 8 - 1) :
                ByteOf(frame', i) =
                    IF i < pkt'.len THEN pkt'.payload[i + 1] ELSE 0
          /\ (pkt'.len < UIntBits \div 8 \/ pkt'.payload[pkt'.len] < 128) =>
                frame' = LittleEndian(pkt'.payload)
          /\ pkt'.payload = <<1, 0>> => frame' = 1
          /\ pkt'.payload = <<0, 1>> => frame' = 256]_vars

\* A marker of four bytes with the top bit set has been stored.
FrameTopBit ==
    /\ alive
    /\ pkt.sys = "SYS_KEY_FRAME"
    /\ pkt.payload = <<0, 0, 0, 128>>
    /\ Len(calls) = 1
    /\ frame < 0

\* The groups of a payload that the colons separate.
RECURSIVE Groups(_)
Groups(payload) ==
    LET colons == {i \in 1 .. Len(payload) : payload[i] = CharColon}
    IN IF colons = {} THEN <<payload>>
       ELSE LET k == CHOOSE i \in colons : \A j \in colons : i <= j
            IN <<SubSeq(payload, 1, k - 1)>>
                   \o Groups(SubSeq(payload, k + 1, Len(payload)))

\* The groups read as the digits of a base-60 numeral.
RECURSIVE Base60(_)
Base60(groups) ==
    IF groups = <<>> THEN 0
    ELSE 60 * Base60(SubSeq(groups, 1, Len(groups) - 1))
             + DecimalValue(groups[Len(groups)])

\* A session clock packet with a duration is the one last reduced.
ClockValued ==
    alive /\ pkt.sys = "SYS_WEATHER" /\ pkt.data = 0 /\ pkt.len > 0

(* C13.  A weather packet of field 0 with len > 0 and digits between       *)
(* colons sets remaining_time to the base-60 fold of the decimal groups:   *)
(* 3600 H + 60 MM + SS for three, 60 MM + SS for two, the value for one;   *)
(* "1:02:03" gives 3723.                                                   *)
DurationParsed ==
    ClockValued =>
      LET g == Groups(pkt.payload)
          v(i) == DecimalValue(g[i])
      IN /\ remaining_time = Base60(g)
         /\ Len(g) = 1 => remaining_time = v(1)
         /\ Len(g) = 2 => remaining_time = 60 * v(1) + v(2)
         /\ Len(g) = 3 => remaining_time = 3600 * v(1) + 60 * v(2) + v(3)
         /\ pkt.payload = Duration(1, 2, 3) => remaining_time = 3723

\* "1:02:03" has just been parsed over another duration.
DurationHours ==
    /\ ClockValued
    /\ pkt.payload = Duration(1, 2, 3)
    /\ remaining_time = 3723
    /\ epoch_time # 0

\* The step reduces a session clock packet.
ClockStep == alive' /\ pkt'.sys = "SYS_WEATHER" /\ pkt'.data = 0

\* The values time (NULL) returned in a reduction.
Stamps(c) == {c[i].a : i \in {j \in DOMAIN c : c[j].op = "time"}}

(* C18.  An event start leaves epoch_time 0.  A session clock packet with  *)
(* a payload met with epoch_time 0 only sets remaining_time; one without   *)
(* payload sets epoch_time to the current time and leaves remaining_time;  *)
(* epoch_time leaves 0 by such a packet only; and with epoch_time not 0 a  *)
(* packet with a payload sets epoch_time to the current time as well.      *)
SessionClock ==
    [][/\ (alive' /\ pkt'.sys = "SYS_EVENT_ID") => epoch_time' = 0
       /\ (ClockStep /\ pkt'.len > 0) =>
             /\ remaining_time' = Base60(Groups(pkt'.payload))
             /\ IF epoch_time = 0
                THEN epoch_time' = 0 /\ Stamps(calls') = {}
                ELSE Stamps(calls') = {epoch_time'}
       /\ (ClockStep /\ pkt'.len <= 0) =>
             /\ Stamps(calls') = {epoch_time'}
             /\ remaining_time' = remaining_time
       /\ (epoch_time = 0 /\ epoch_time' # 0) => (ClockStep /\ pkt'.len <= 0)
       /\ ~ClockStep => Stamps(calls') = {}]_vars

\* A running session clock has been given a new duration at a later time.
ClockRefreshed ==
    /\ ClockValued
    /\ remaining_time = 59
    /\ epoch_time = 200
    /\ Stamps(calls) = {200}
    /\ event_no = 7

\* The system packet types handle_system_packet has a case for.
Handled == {"SYS_EVENT_ID", "SYS_KEY_FRAME", "SYS_WEATHER",
            "SYS_TRACK_STATUS", "SYS_COPYRIGHT", "SYS_NOTICE"}

\* The step reduces a packet that is passed on or ignored.
QuietStep ==
    /\ alive'
    /\ \/ pkt'.sys \in {"SYS_COPYRIGHT", "SYS_NOTICE"}
       \/ pkt'.car = 0 /\ pkt'.sys \notin Handled
       \/ pkt'.sys = "SYS_WEATHER" /\ pkt'.data # 0
       \/ pkt'.sys = "SYS_TRACK_STATUS" /\ pkt'.data # 1
       \/ /\ pkt'.car \in 1 .. num_cars
          /\ pkt'.type = CAR_POSITION_HISTORY

(* C14.  A copyright, a notice, a system packet of an unknown type, a      *)
(* weather packet of a field other than 0, a track status of a field other *)
(* than 1 and a position history of a known car leave every field of the   *)
(* race state as it is, draw nothing and call neither the key provider nor *)
(* the key frame provider nor reset_decryption: the one call there is is   *)
(* the log.                                                                *)
NoOpPackets ==
    [][QuietStep =>
          /\ UNCHANGED RaceState
          /\ UNCHANGED <<cursed, nlines, stack>>
          /\ disp' = NoDisplay
          /\ \A i \in DOMAIN calls' : calls'[i].op = "info"
          /\ pkt'.sys \notin {"SYS_COPYRIGHT", "SYS_NOTICE"} =>
                calls' = <<>>]_vars

\* A copyright has gone by a state with a car on the board, a text, a flag
\* and a running clock.
QuietOnBusyState ==
    /\ alive
    /\ pkt.sys = "SYS_COPYRIGHT"
    /\ num_cars > 0 /\ car_position[1] = 1 /\ car_info[1][1].text # <<>>
    /\ flag = 2
    /\ remaining_time = 59 /\ epoch_time # 0
    /\ frame # 0

\* The key requests of a reduction.
KeyRequests(c) ==
    Cardinality({i \in DOMAIN c : c[i].op = "obtain_decryption_key"})

(* C15.  When obtain_decryption_key at an event start or obtain_key_frame  *)
(* at a first key frame marker fails, the reducer gives its caller a       *)
(* failure to recover from, has asked once only in that reduction, and the *)
(* process goes on.                                                        *)
FailureSurfaced ==
    (alive /\ reply = "failed") =>
      /\ returned = "failure"
      /\ KeyRequests(calls) + Requests(calls) = 1

\* The step reduces a position update.
PositionStep ==
    alive' /\ pkt'.car > 0 /\ pkt'.type = CAR_POSITION_UPDATE

\* The row and car notifications of a reduction, in order.
Notifications(c) ==
    SelectSeq(c, LAMBDA e : e.op \in {"clear_car", "update_car"})

\* The position a car has before a step; a car that joins has none.
PositionBefore(car) == IF car <= num_cars THEN car_position[car] ELSE 0

(* C16.  A position update first asks for the row of its car to be cleared *)
(* while car_position of the car is still the old one, then changes the    *)
(* positions, and then asks for the row of the car to be drawn, once, if   *)
(* data is not 0 and not at all if it is; no other car's row is asked for. *)
NotificationOrder ==
    [][PositionStep =>
          LET n == Notifications(calls')
          IN /\ Len(n) = IF pkt'.data # 0 THEN 2 ELSE 1
             /\ n[1].op = "clear_car"
             /\ n[1].b = PositionBefore(pkt'.car)
             /\ Len(n) = 2 => n[2].op = "update_car" /\ n[2].b = pkt'.data
             /\ \A i \in DOMAIN n : n[i].a = pkt'.car
             /\ PositionBefore(pkt'.car) # 0 =>
                   \E r \in disp'.rows : r[1] = PositionBefore(pkt'.car)
             /\ car_position'[pkt'.car] = pkt'.data]_vars

\* A car has moved from one row to another that a second car held.
RowMoved ==
    /\ alive
    /\ pkt.car > 0 /\ pkt.type = CAR_POSITION_UPDATE
    /\ Len(Notifications(calls)) = 2
    /\ Notifications(calls)[1].b \notin {0, pkt.data}
    /\ pkt.data \in {old_position[c] : c \in DOMAIN old_position}
    /\ {r[1] : r \in disp.rows} = {Notifications(calls)[1].b, pkt.data}

(* C17.  A position update for a known car changes car_position of the    *)
(* car itself, to data, and of the cars that held data, to 0; the position *)
(* of every other car, every atom of every car and the session fields are  *)
(* as before.                                                              *)
PositionFrame ==
    [][(PositionStep /\ pkt'.car <= num_cars) =>
          /\ car_position' =
                [c \in 1 .. num_cars |->
                    IF c = pkt'.car THEN pkt'.data
                    ELSE IF car_position[c] = pkt'.data THEN 0
                         ELSE car_position[c]]
          /\ UNCHANGED <<num_cars, car_info, event_no, event_type,
                         epoch_time, remaining_time, lap, flag, frame,
                         key>>]_vars

\* The last car has taken a row of its own with the first car on the board
\* and the session under way.
OtherRowKept ==
    /\ alive
    /\ pkt.car = MaxCars /\ pkt.type = CAR_POSITION_UPDATE
    /\ pkt.data = MaxPos
    /\ Len(old_position) = MaxCars
    /\ old_position[MaxCars] # MaxPos
    /\ car_position[1] = 1
    /\ car_info[1][1].text # <<>>
    /\ flag = 2 /\ remaining_time = 59 /\ frame # 0

(* C19.  An event start asks for the key, with the decimal value of the   *)
(* payload after its first byte, before it resets any field; it resets the *)
(* decryption after the fields; and it redraws the board after that, with  *)
(* num_cars 0 and the new event type for clear_board to see.               *)
EventStartOrder ==
    [][(alive' /\ pkt'.sys = "SYS_EVENT_ID") =>
          /\ Len(calls') = 4
          /\ calls'[1].op = "obtain_decryption_key"
          /\ calls'[1].at = Seen(S)
          /\ pkt'.len >= 1 =>
                calls'[1].a = DecimalValue(SubSeq(pkt'.payload, 2, pkt'.len))
          /\ calls'[2].op = "reset_decryption"
          /\ calls'[2].at = [Seen(S) EXCEPT !.num_cars = 0,
                                           !.event_no = calls'[1].a,
                                           !.event_type = pkt'.data]
          /\ calls'[3].op = "clear_board"
          /\ calls'[3].at = calls'[2].at
          /\ calls'[3].a = 0 /\ calls'[3].b = pkt'.data
          /\ calls'[3].snap = <<<<>>, <<>>>>
          /\ calls'[4].op = "info"]_vars

\* An event of another type has started over a board with a car.
EventTypeChanged ==
    /\ alive
    /\ pkt.sys = "SYS_EVENT_ID"
    /\ pkt.data = PRACTICE_EVENT
    /\ calls[1].at.num_cars > 0
    /\ calls[1].at.event_type = RACE_EVENT
    /\ calls[1].at.event_no = 12
    /\ old_position[1] # 0

(* C20.  Every row the display draws a cell on or blanks, the row          *)
(* car_position of the car when that is not 0, lies inside the board       *)
(* window as it is then: 0 < y < nlines, y = nlines included among the     *)
(* positions a position update can assign.                                 *)
RowsInsideBoard ==
    \A r \in disp.rows : 0 < r[1] /\ r[1] < r[2]

(* C21.  obtain_key_frame is never asked for while the replay of an       *)
(* earlier obtain_key_frame is going on, whatever the replay feeds back:   *)
(* car packets, key frame markers of any number, 0 among them, event       *)
(* starts.                                                                 *)
NoNestedBootstrap ==
    [][Len(stack') > Len(stack) => stack = <<>>]_vars

(* C22.  The recursion clear_board -> _update_cell -> clear_board is one   *)
(* deep at most: no _update_cell that clear_board calls finds its row      *)
(* outside the window clear_board has just sized, whatever the positions,  *)
(* so every call of the display returns or exits the program.              *)
RepaintShallow ==
    disp.depth <= 1 /\ ~disp.runaway

\* _update_cell has had the board rebuilt for a row below the window, and
\* the rebuilt board has drawn that row.
BoardRebuilt ==
    /\ alive
    /\ pkt.car > 0 /\ pkt.type = CAR_POSITION_UPDATE
    /\ Redraws(calls) = 0
    /\ disp.boards = 1 /\ disp.depth = 1
    /\ pkt.data > MIN_CARS + 1
    /\ nlines = pkt.data + 1
    /\ <<pkt.data, nlines>> \in disp.rows

\* The number a key frame marker decoded, as its reduction shows it.
MarkerNumber == IF Len(calls) >= 2 THEN calls[2].a ELSE frame

(* C23.  An event start and a key frame marker with a negative len read no *)
(* byte of the payload and decode the number 0: the event start reads the  *)
(* payload at the indices from 1 to len - 1 only and the marker at those   *)
(* from 0 to len - 1 only, so the process lives and nothing but the        *)
(* payload decides the number.                                             *)
SentinelDecodesZero ==
    /\ (pkt.sys = "SYS_EVENT_ID" /\ pkt.len < 0) => alive /\ event_no = 0
    /\ (pkt.sys = "SYS_KEY_FRAME" /\ pkt.len < 0) =>
          alive /\ MarkerNumber = 0

=============================================================================
